---- MODULE Spec2Model ----
(***************************************************************************)
(* A model of packet/basepacket.py: the Packet envelope codec (dumps,      *)
(* loads, _update_dict, receive_from, send_to), the restricted literal     *)
(* evaluator safe_eval, the process-wide serializer selector and the       *)
(* attribute-set interception installed by _PacketMetaClass.               *)
(*                                                                         *)
(* Python values, JSON documents and Python expression trees are all       *)
(* nodes of one shape [k, v, n, e]: k the kind, v a string payload, n an   *)
(* integer payload, e the sequence of children.  A text (the bytes on the  *)
(* wire) is [fmt, doc]: the syntax it is written in and its syntax tree.   *)
(* Sets and dicts keep their elements in insertion order, as CPython's     *)
(* repr prints them; no operation of the model reorders them.              *)
(***************************************************************************)
EXTENDS Integers, Sequences, FiniteSets, TLC

VARIABLES
    packet_serializer,  \* Packet.packet_serializer, the class attribute
    attrs,              \* attrs[p]: the attribute mapping of instance p
    cls_setattr,        \* cls_setattr[c]: what c.__setattr__ currently is
    stack,              \* the instances whose __init__ is running, innermost last
    done,               \* the instances whose constructor has returned
    expr,               \* the expression tree handed to safe_eval
    last                \* the last call: its operation, arguments and outcome

vars == <<packet_serializer, attrs, cls_setattr, stack, done, expr, last>>

(***************************************************************************)
(* Nodes.                                                                  *)
(***************************************************************************)
N(k, v, n, e) == [k |-> k, v |-> v, n |-> n, e |-> e]

\* Python values
IntV(i) == N("int", "", i, <<>>)
StrV(s) == N("str", s, 0, <<>>)
NoneV == N("none", "", 0, <<>>)
BoolV(b) == N("bool", "", b, <<>>)
FloatV(s) == N("float", s, 0, <<>>)
ComplexV(s) == N("complex", s, 0, <<>>)
TupleV(es) == N("tuple", "", 0, es)
ListV(es) == N("list", "", 0, es)
SetV(es) == N("set", "", 0, es)
FrozenSetV(es) == N("frozenset", "", 0, es)
Item(key, val) == N("item", "", 0, <<key, val>>)
DictV(items) == N("dict", "", 0, items)
\* an instance of a plain class: repr is <C object at 0x...>
ObjV(c) == N("obj", c, 0, <<>>)
\* a datetime.date: repr is datetime.date(y, m, d)
DateV(y) == N("date", "", y, <<>>)

\* Python expression nodes (module ast)
Constant(val) == N("Constant", "", 0, <<val>>)
Tuple(elts) == N("Tuple", "", 0, elts)
List(elts) == N("List", "", 0, elts)
Set(elts) == N("Set", "", 0, elts)
Dict(items) == N("Dict", "", 0, items)
Name(id) == N("Name", id, 0, <<>>)
Call(func, args, keywords) ==
    N("Call", "", 0, <<func, N("args", "", 0, args), N("keywords", "", 0, keywords)>>)
UnaryOp(op, operand) == N("UnaryOp", op, 0, <<operand>>)
BinOp(left, op, right) == N("BinOp", op, 0, <<left, right>>)
Attribute(value, attr) == N("Attribute", attr, 0, <<value>>)
Subscript(value, slice) == N("Subscript", "", 0, <<value, slice>>)
Compare(left, right) == N("Compare", "Eq", 0, <<left, right>>)
BoolOp(op, values) == N("BoolOp", op, 0, values)

\* JSON documents
JNum(i) == N("jnum", "", i, <<>>)
JStr(s) == N("jstr", s, 0, <<>>)
JNull == N("jnull", "", 0, <<>>)
JArr(es) == N("jarr", "", 0, es)
JObj(items) == N("jobj", "", 0, items)

\* outcomes of a call: the exception raised ("" for none) and the value returned
Ok(val) == [err |-> "", val |-> val]
Err(e) == [err |-> e, val |-> NoneV]

\* texts
Text(fmt, doc) == [fmt |-> fmt, doc |-> doc]
Garbage == Text("garbage", NoneV)
Empty == Text("empty", NoneV)

(***************************************************************************)
(* dict and set primitives of the interpreter.                             *)
(***************************************************************************)
RECURSIVE Hashable(_)
Hashable(val) ==
    CASE val.k \in {"list", "dict", "set"} -> FALSE
      [] val.k \in {"tuple", "frozenset"} -> \A i \in 1..Len(val.e) : Hashable(val.e[i])
      [] OTHER -> TRUE

\* d[key] = val on the item sequence of a dict: an existing key keeps its place
DictSet(items, key, val) ==
    IF \E i \in 1..Len(items) : items[i].e[1] = key
    THEN [i \in 1..Len(items) |->
            IF items[i].e[1] = key THEN Item(key, val) ELSE items[i]]
    ELSE Append(items, Item(key, val))

DictKeys(d) == {d.e[i].e[1] : i \in 1..Len(d.e)}
DictGet(d, key) == d.e[CHOOSE i \in 1..Len(d.e) : d.e[i].e[1] = key].e[2]
SetAdd(elts, val) ==
    IF \E i \in 1..Len(elts) : elts[i] = val THEN elts ELSE Append(elts, val)

(***************************************************************************)
(* The json module, as dumps and loads use it.                             *)
(***************************************************************************)
\* json.dumps of a dict key: str as is, int/bool/None coerced to a string,
\* anything else a TypeError
JsonKey(key) ==
    CASE key.k = "str" -> Ok(JStr(key.v))
      [] key.k = "int" -> Ok(JStr(ToString(key.n)))
      [] key.k = "bool" -> Ok(JStr(IF key.n = 1 THEN "true" ELSE "false"))
      [] key.k = "none" -> Ok(JStr("null"))
      [] OTHER -> Err("TypeError")

RECURSIVE json_dumps(_), JsonAll(_)
\* the document json.dumps writes for a value, or the TypeError it raises
json_dumps(val) ==
    CASE val.k = "int" -> Ok(JNum(val.n))
      [] val.k = "str" -> Ok(JStr(val.v))
      [] val.k = "none" -> Ok(JNull)
      [] val.k \in {"list", "tuple"} ->
            LET r == JsonAll(val.e) IN IF r.err # "" THEN r ELSE Ok(JArr(r.val.e))
      [] val.k = "dict" ->
            LET r == JsonAll(val.e) IN IF r.err # "" THEN r ELSE Ok(JObj(r.val.e))
      [] val.k = "item" ->
            LET key == JsonKey(val.e[1])
                sub == json_dumps(val.e[2])
            IN  IF key.err # "" THEN key
                ELSE IF sub.err # "" THEN sub
                ELSE Ok(Item(key.val, sub.val))
      [] OTHER -> Err("TypeError")

JsonAll(s) ==
    IF s = <<>> THEN Ok(ListV(<<>>))
    ELSE LET h == json_dumps(Head(s)) IN
         IF h.err # "" THEN h
         ELSE LET t == JsonAll(Tail(s)) IN
              IF t.err # "" THEN t ELSE Ok(ListV(<<h.val>> \o t.val.e))

RECURSIVE FromJson(_), FromJsonItems(_, _)
\* the value json.loads builds from a document
FromJson(doc) ==
    CASE doc.k = "jnum" -> IntV(doc.n)
      [] doc.k = "jstr" -> StrV(doc.v)
      [] doc.k = "jarr" -> ListV([i \in 1..Len(doc.e) |-> FromJson(doc.e[i])])
      [] doc.k = "jobj" -> DictV(FromJsonItems(doc.e, <<>>))
      [] OTHER -> NoneV

FromJsonItems(items, acc) ==
    IF items = <<>> THEN acc
    ELSE FromJsonItems(Tail(items),
            DictSet(acc, StrV(Head(items).e[1].v), FromJson(Head(items).e[2])))

RECURSIVE PyAsJson(_)
\* the JSON document a Python literal text also is, when it is one: lists of
\* integers only (repr quotes strings with ', which JSON refuses)
PyAsJson(tree) ==
    CASE tree.k = "Constant" /\ tree.e[1].k = "int" -> Ok(JNum(tree.e[1].n))
      [] tree.k = "UnaryOp" /\ tree.v = "USub" /\ tree.e[1].k = "Constant"
            /\ tree.e[1].e[1].k = "int" -> Ok(JNum(0 - tree.e[1].e[1].n))
      [] tree.k = "List" ->
            IF \A i \in 1..Len(tree.e) : PyAsJson(tree.e[i]).err = ""
            THEN Ok(JArr([i \in 1..Len(tree.e) |-> PyAsJson(tree.e[i]).val]))
            ELSE Err("JSONDecodeError")
      [] OTHER -> Err("JSONDecodeError")

\* json.loads(data)
json_loads(text) ==
    CASE text.fmt = "json" -> Ok(FromJson(text.doc))
      [] text.fmt = "py" ->
            LET r == PyAsJson(text.doc) IN IF r.err # "" THEN r ELSE Ok(FromJson(r.val))
      [] OTHER -> Err("JSONDecodeError")

(***************************************************************************)
(* repr and ast.parse.                                                     *)
(***************************************************************************)
RECURSIVE ContainsObj(_)
ContainsObj(val) ==
    val.k = "obj" \/ \E i \in 1..Len(val.e) : ContainsObj(val.e[i])

RECURSIVE ReprTree(_)
\* the expression tree ast.parse gives for the text repr(val) (Python 3.8+:
\* every literal, None and the booleans included, is a Constant)
ReprTree(val) ==
    LET sub == [i \in 1..Len(val.e) |-> ReprTree(val.e[i])] IN
    CASE val.k = "int" ->
            IF val.n < 0 THEN UnaryOp("USub", Constant(IntV(0 - val.n)))
            ELSE Constant(val)
      [] val.k = "float" ->
            IF val.n = 1 THEN UnaryOp("USub", Name(val.v)) ELSE Name(val.v)
      [] val.k = "complex" -> Name(val.v)
      [] val.k = "tuple" -> Tuple(sub)
      [] val.k = "list" -> List(sub)
      [] val.k = "set" ->
            IF val.e = <<>> THEN Call(Name("set"), <<>>, <<>>) ELSE Set(sub)
      [] val.k = "frozenset" ->
            IF val.e = <<>> THEN Call(Name("frozenset"), <<>>, <<>>)
            ELSE Call(Name("frozenset"), <<Set(sub)>>, <<>>)
      [] val.k = "dict" -> Dict(sub)
      [] val.k = "item" -> Item(sub[1], sub[2])
      [] val.k = "date" ->
            Call(Attribute(Name("datetime"), "date"),
                 <<Constant(IntV(val.n)), Constant(IntV(1)), Constant(IntV(1))>>, <<>>)
      [] OTHER -> Constant(val)

\* repr(val): a text that is no expression at all once an object without a
\* literal repr is anywhere in it
repr(val) == IF ContainsObj(val) THEN Garbage ELSE Text("py", ReprTree(val))

RECURSIVE JsonAsPy(_)
\* a JSON text read as a Python expression
JsonAsPy(doc) ==
    LET sub == [i \in 1..Len(doc.e) |-> JsonAsPy(doc.e[i])] IN
    CASE doc.k = "jnum" ->
            IF doc.n < 0 THEN UnaryOp("USub", Constant(IntV(0 - doc.n)))
            ELSE Constant(IntV(doc.n))
      [] doc.k = "jstr" -> Constant(StrV(doc.v))
      [] doc.k = "jnull" -> Name("null")
      [] doc.k = "jarr" -> List(sub)
      [] doc.k = "jobj" -> Dict(sub)
      [] doc.k = "item" -> Item(sub[1], sub[2])
      [] OTHER -> Name("null")

\* ast.parse(text, mode="eval").body
parse(text) ==
    CASE text.fmt = "py" -> Ok(text.doc)
      [] text.fmt = "json" -> Ok(JsonAsPy(text.doc))
      [] OTHER -> Err("SyntaxError")

(***************************************************************************)
(* safe_eval.                                                              *)
(***************************************************************************)
_NUM_TYPES == {"int", "bool", "float", "complex"}

_SAFE_NAMES ==
    [None |-> NoneV, True |-> BoolV(1), False |-> BoolV(0),
     inf |-> FloatV("inf"), nan |-> FloatV("nan"),
     infj |-> ComplexV("infj"), nanj |-> ComplexV("nanj")]

_SAFE_CALLS == {"set"}

\* - operand
Neg(x) ==
    CASE x.k \in {"int", "bool"} -> IntV(0 - x.n)
      [] x.k = "float" -> N("float", x.v, 1 - x.n, <<>>)
      [] OTHER -> ComplexV("number")

\* left + right
Plus(x, y) ==
    CASE x.k \in {"int", "bool"} /\ y.k \in {"int", "bool"} -> IntV(x.n + y.n)
      [] x.k = "complex" \/ y.k = "complex" -> ComplexV("number")
      [] x.k = "float" /\ y.k = "float" ->
            IF x.v = "nan" \/ y.v = "nan" \/ x.n # y.n THEN FloatV("nan") ELSE x
      [] x.k = "float" -> x
      [] OTHER -> y

\* set(*args): the builtin called with the evaluated positional arguments
BuiltinSet(args) ==
    IF Len(args) = 0 THEN Ok(SetV(<<>>))
    ELSE IF Len(args) > 1 THEN Err("TypeError")
    ELSE LET a == args[1]
             elts == CASE a.k = "dict" -> [i \in 1..Len(a.e) |-> a.e[i].e[1]]
                       [] a.k = "str" -> IF a.v = "" THEN <<>> ELSE <<a>>
                       [] OTHER -> a.e
             RECURSIVE Fill(_, _)
             Fill(s, acc) == IF s = <<>> THEN acc ELSE Fill(Tail(s), SetAdd(acc, Head(s)))
         IN  IF a.k \notin {"tuple", "list", "set", "frozenset", "dict", "str"}
             THEN Err("TypeError")
             ELSE IF \E i \in 1..Len(elts) : ~Hashable(elts[i]) THEN Err("TypeError")
             ELSE Ok(SetV(Fill(elts, <<>>)))

RECURSIVE _convert(_), ConvertAll(_), ConvertSet(_, _), ConvertDict(_, _)
_convert(node) ==
    CASE node.k = "Constant" -> Ok(node.e[1])
      [] node.k = "Tuple" ->
            LET r == ConvertAll(node.e) IN IF r.err # "" THEN r ELSE Ok(TupleV(r.val.e))
      [] node.k = "List" ->
            LET r == ConvertAll(node.e) IN IF r.err # "" THEN r ELSE Ok(ListV(r.val.e))
      [] node.k = "Set" -> ConvertSet(node.e, <<>>)
      [] node.k = "Dict" -> ConvertDict(node.e, <<>>)
      [] node.k = "Name" ->
            IF node.v \in DOMAIN _SAFE_NAMES THEN Ok(_SAFE_NAMES[node.v])
            ELSE Err("ValueError")
      [] node.k = "Call" ->
            \* node.func.id: only a Name has an id
            IF node.e[1].k # "Name" THEN Err("AttributeError")
            ELSE IF node.e[1].v \in _SAFE_CALLS
            THEN LET r == ConvertAll(node.e[2].e) IN
                 IF r.err # "" THEN r ELSE BuiltinSet(r.val.e)
            ELSE Err("ValueError")
      [] node.k = "UnaryOp" /\ node.v \in {"UAdd", "USub"} ->
            LET r == _convert(node.e[1]) IN
            IF r.err # "" THEN r
            ELSE IF r.val.k \in _NUM_TYPES
            THEN Ok(IF node.v = "UAdd" THEN Plus(IntV(0), r.val) ELSE Neg(r.val))
            ELSE Err("ValueError")
      [] node.k = "BinOp" /\ node.v \in {"Add", "Sub"} ->
            LET l == _convert(node.e[1]) IN
            IF l.err # "" THEN l
            ELSE LET r == _convert(node.e[2]) IN
                 IF r.err # "" THEN r
                 ELSE IF l.val.k \in _NUM_TYPES /\ r.val.k \in _NUM_TYPES
                 THEN Ok(IF node.v = "Add" THEN Plus(l.val, r.val)
                         ELSE Plus(l.val, Neg(r.val)))
                 ELSE Err("ValueError")
      [] OTHER -> Err("ValueError")

\* map(_convert, elts), stopping at the first element that raises
ConvertAll(s) ==
    IF s = <<>> THEN Ok(ListV(<<>>))
    ELSE LET h == _convert(Head(s)) IN
         IF h.err # "" THEN h
         ELSE LET t == ConvertAll(Tail(s)) IN
              IF t.err # "" THEN t ELSE Ok(ListV(<<h.val>> \o t.val.e))

\* set(map(_convert, elts)): each element is converted, then hashed
ConvertSet(s, acc) ==
    IF s = <<>> THEN Ok(SetV(acc))
    ELSE LET h == _convert(Head(s)) IN
         IF h.err # "" THEN h
         ELSE IF ~Hashable(h.val) THEN Err("TypeError")
         ELSE ConvertSet(Tail(s), SetAdd(acc, h.val))

\* dict((_convert(k), _convert(v)) for k, v in zip(keys, values))
ConvertDict(s, acc) ==
    IF s = <<>> THEN Ok(DictV(acc))
    ELSE LET key == _convert(Head(s).e[1]) IN
         IF key.err # "" THEN key
         ELSE LET val == _convert(Head(s).e[2]) IN
              IF val.err # "" THEN val
              ELSE IF ~Hashable(key.val) THEN Err("TypeError")
              ELSE ConvertDict(Tail(s), DictSet(acc, key.val, val.val))

\* safe_eval of a text
safe_eval(text) ==
    LET tree == parse(text) IN IF tree.err # "" THEN tree ELSE _convert(tree.val)

(***************************************************************************)
(* Packet: instances, classes and the serializer selector.                 *)
(***************************************************************************)
\* the two selectors packet/utils.py defines: two distinct integers
JSON_SERIALIZER == 0
AST_SERIALIZER == 1

\* bounds of the model
MaxInt == 2         \* integers written to attributes and passed as selectors
MaxDepth == 2       \* nesting depth of the expression trees given to safe_eval

Instances == {"p1", "p2", "p3", "p4"}
\* the class of each instance; __tag__ is the class name (lines 213-220)
ClassOf == [p1 |-> "T", p2 |-> "T", p3 |-> "U", p4 |-> "T"]
Classes == {"T", "U"}
\* the names each instance's __init__ assigns
InitNames == [p1 |-> {"a", "b"}, p2 |-> {"a", "b"}, p3 |-> {"a", "b"}, p4 |-> {"a"}]
\* every attribute name of the model, in the order _get_attributes yields them
NameOrder == <<"a", "b", "c">>
__tag__(self) == ClassOf[self]

\* Packet._get_attributes(obj)
_get_attributes(am) == DOMAIN am

\* Packet._generate_dict: the attribute mapping as a dict value
_generate_dict(am) ==
    LET present == SelectSeq(NameOrder, LAMBDA nm : nm \in _get_attributes(am))
    IN  DictV([i \in 1..Len(present) |-> Item(StrV(present[i]), am[present[i]])])

RECURSIVE _check_dict_keys(_)
\* "" when it returns, the exception it raises otherwise
_check_dict_keys(obj) ==
    IF \E i \in 1..Len(obj.e) :
          \/ obj.e[i].e[1].k # "str"
          \/ obj.e[i].e[2].k = "dict" /\ _check_dict_keys(obj.e[i].e[2]) # ""
    THEN "TypeError" ELSE ""

\* Packet.dumps: the exception raised and the text returned
dumps(tag, am, serializer) ==
    LET _data == _generate_dict(am)
        envelope == DictV(<<Item(StrV(tag), _data)>>)
    IN  IF serializer = AST_SERIALIZER
        THEN LET data == repr(envelope)
                 r == safe_eval(data)
             IN  IF r.err = "ValueError" THEN [err |-> "NotSerializable", val |-> Empty]
                 ELSE IF r.err # "" THEN [err |-> r.err, val |-> Empty]
                 ELSE [err |-> "", val |-> data]
        ELSE IF _check_dict_keys(_data) = "TypeError"
             THEN [err |-> "NotSerializable", val |-> Empty]
             ELSE LET r == json_dumps(envelope) IN
                  IF r.err = "TypeError" THEN [err |-> "NotSerializable", val |-> Empty]
                  ELSE [err |-> "", val |-> Text("json", r.val)]

\* _update_dict with the attribute-set test weakened to "no attribute is
\* missing": extra keys pass
_update_dict_superset(am, data) ==
    IF data.k # "dict" THEN [err |-> "InvalidData", am |-> am]
    ELSE IF ~({StrV(nm) : nm \in _get_attributes(am)} \subseteq DictKeys(data))
    THEN [err |-> "InvalidData", am |-> am]
    ELSE [err |-> "", am |-> [nm \in DOMAIN am |-> DictGet(data, StrV(nm))]]

\* _update_dict writing as it goes and testing the attribute set afterwards
_update_dict_eager(am, data) ==
    IF data.k # "dict" THEN [err |-> "InvalidData", am |-> am]
    ELSE LET written == [nm \in DOMAIN am |->
                           IF StrV(nm) \in DictKeys(data) THEN DictGet(data, StrV(nm))
                           ELSE am[nm]]
         IN  IF DictKeys(data) # {StrV(nm) : nm \in _get_attributes(am)}
             THEN [err |-> "InvalidData", am |-> written]
             ELSE [err |-> "", am |-> written]

\* Packet._update_dict: the exception raised and the attribute mapping left
_update_dict(am, data) ==
    IF data.k # "dict" THEN [err |-> "InvalidData", am |-> am]
    ELSE IF DictKeys(data) # {StrV(nm) : nm \in _get_attributes(am)}
    THEN [err |-> "InvalidData", am |-> am]
    ELSE [err |-> "", am |-> [nm \in DOMAIN am |-> DictGet(data, StrV(nm))]]

\* Packet.loads: the exception raised and the attribute mapping left
loads(tag, am, data, serializer) ==
    LET _data == IF serializer = AST_SERIALIZER THEN safe_eval(data)
                 ELSE json_loads(data)
    IN  IF _data.err # "" THEN [err |-> "UnknownPacket", am |-> am]
        ELSE IF _data.val.k # "dict" THEN [err |-> "UnknownPacket", am |-> am]
        ELSE IF StrV(tag) \notin DictKeys(_data.val)
        THEN [err |-> "InvalidData", am |-> am]
        ELSE _update_dict(am, DictGet(_data.val, StrV(tag)))

\* receive_from with "except UnknownPacket" alone: InvalidData escapes
receive_from_narrow(tag, am, conn, data, serializer) ==
    IF conn = "None" THEN [err |-> "", ret |-> "False", am |-> am]
    ELSE IF data = Empty THEN [err |-> "", ret |-> "False", am |-> am]
    ELSE LET r == loads(tag, am, data, serializer) IN
         IF r.err = "UnknownPacket" THEN [err |-> "", ret |-> "False", am |-> r.am]
         ELSE IF r.err # "" THEN [err |-> r.err, ret |-> "", am |-> r.am]
         ELSE [err |-> "", ret |-> "True", am |-> r.am]

\* Packet.receive_from: the exception raised, the value returned and the
\* attribute mapping left; conn is "None" or a connection whose recv gives data
receive_from(tag, am, conn, data, serializer) ==
    IF conn = "None" THEN [err |-> "", ret |-> "False", am |-> am]
    ELSE IF data = Empty THEN [err |-> "", ret |-> "False", am |-> am]
    ELSE LET r == loads(tag, am, data, serializer) IN
         IF r.err \in {"UnknownPacket", "InvalidData"}
         THEN [err |-> "", ret |-> "False", am |-> r.am]
         ELSE IF r.err # "" THEN [err |-> r.err, ret |-> "", am |-> r.am]
         ELSE [err |-> "", ret |-> "True", am |-> r.am]

\* Packet.send_to: the exception raised, the value returned ("None" or the
\* count conn.send gives) and the text handed to conn.send
send_to(tag, am, conn, serializer) ==
    IF conn = "None" THEN [err |-> "", ret |-> "None", val |-> Empty]
    ELSE LET r == dumps(tag, am, serializer) IN
         IF r.err # "" THEN [err |-> r.err, ret |-> "", val |-> Empty]
         ELSE [err |-> "", ret |-> "sent", val |-> r.val]

\* the test with the membership half lost: any int passes
UnknownSerializerTypeOnly(x) == x.t \notin {"int", "bool"}

\* set_packet_serializer's test: x is [t, v], a value of type t that compares
\* equal to the number v (a bool is an int; a str equals no number)
UnknownSerializer(x) ==
    \/ x.t \notin {"int", "bool"}
    \/ (x.v # JSON_SERIALIZER /\ x.v # AST_SERIALIZER)

(***************************************************************************)
(* Inputs.                                                                 *)
(***************************************************************************)
IntKeyDict == DictV(<<Item(IntV(1), IntV(2))>>)

\* the values the sender's attribute a may hold when the run starts
Vals ==
    {IntV(1), IntV(0 - MaxInt),
     TupleV(<<IntV(1)>>), ListV(<<IntV(1), StrV("x")>>),
     DictV(<<Item(StrV("k"), NoneV)>>),
     IntKeyDict,
     DictV(<<Item(StrV("k"), IntKeyDict)>>),
     ListV(<<IntKeyDict>>),
     SetV(<<IntV(1)>>), SetV(<<>>),
     FrozenSetV(<<IntV(1)>>), DateV(2020), ObjV("InnerClass")}

JItem(key, doc) == Item(JStr(key), doc)
JAttrs(ns) == JObj([i \in 1..Len(ns) |-> JItem(ns[i], JNum(MaxInt))])

\* texts no dumps produced
Crafted ==
    {Garbage,
     Text("json", JArr(<<JNum(1)>>)),
     Text("py", List(<<Constant(IntV(1))>>)),
     Text("json", JObj(<<>>)),
     Text("json", JObj(<<JItem("X", JAttrs(<<"a", "b">>))>>)),
     Text("json", JObj(<<JItem("T", JAttrs(<<"a", "b">>)), JItem("X", JNum(1))>>)),
     Text("json", JObj(<<JItem("T", JNum(1))>>)),
     Text("json", JObj(<<JItem("T", JAttrs(<<"a", "b", "c">>))>>)),
     Text("json", JObj(<<JItem("U", JObj(<<JItem("b", JNull)>>))>>)),
     Text("py", Dict(<<Item(Constant(StrV("T")),
                         Dict(<<Item(Constant(StrV("a")), Call(Name("open"), <<>>, <<>>)),
                                Item(Constant(StrV("b")), Constant(IntV(1)))>>))>>)),
     Text("py", Dict(<<Item(Constant(StrV("T")),
                         Dict(<<Item(Constant(IntV(1)), Constant(IntV(1))),
                                Item(Constant(IntV(2)), Constant(IntV(1)))>>))>>)),
     Text("py", Dict(<<Item(List(<<>>), Constant(IntV(1)))>>))}

Serializers == {JSON_SERIALIZER, AST_SERIALIZER}

\* the instances whose dumps output travels, and those that decode
Senders == {"p1"}
Receivers == {"p2", "p3", "p4"}

\* the texts a dumps call on a sender as it is now returns, under either selector
Dumped ==
    {dumps(__tag__(q), attrs[q], m).val : q \in Senders, m \in Serializers} \ {Empty}

Payloads == Crafted \cup Dumped

\* the arguments set_packet_serializer is called with
Selectors ==
    {[t |-> "int", v |-> i] : i \in 0..MaxInt}
    \cup {[t |-> "bool", v |-> 1], [t |-> "float", v |-> 1], [t |-> "str", v |-> 0]}

NoX == [t |-> "none", v |-> 0]

Last(op, self, name, exc, ret, data, out, x) ==
    [op |-> op, self |-> self, name |-> name, exc |-> exc, ret |-> ret,
     data |-> data, out |-> out, x |-> x]

(***************************************************************************)
(* The codec: constructed instances, used by an application.               *)
(***************************************************************************)
Init ==
    /\ packet_serializer = JSON_SERIALIZER
    /\ \E v \in Vals :
          attrs = [p \in Instances |->
                     [nm \in InitNames[p] |->
                        IF p = "p1" THEN (IF nm = "a" THEN v ELSE IntV(1)) ELSE NoneV]]
    /\ cls_setattr = [c \in Classes |-> "_setattr"]
    /\ stack = <<>>
    /\ done = Instances
    /\ expr = NoneV
    /\ last = Last("init", "", "", "", "", Empty, Empty, NoX)

\* self.name = value: type(self).__setattr__(self, name, value), which is
\* _setattr (lines 158-170) or object.__setattr__, as the class has it now
SetAttr(self, name, value) ==
    /\ self \in done \/ \E i \in 1..Len(stack) : stack[i] = self
    /\ IF cls_setattr[ClassOf[self]] = "_setattr" /\ name \notin _get_attributes(attrs[self])
       THEN /\ attrs' = attrs
            /\ last' = Last("setattr", self, name, "AttributeError", "", Empty, Empty, NoX)
       ELSE /\ attrs' = [attrs EXCEPT ![self] =
                           [nm \in DOMAIN attrs[self] \cup {name} |->
                              IF nm = name THEN value ELSE attrs[self][nm]]]
            /\ last' = Last("setattr", self, name, "", "", Empty, Empty, NoX)
    /\ UNCHANGED <<packet_serializer, cls_setattr, stack, done, expr>>

\* del self.name: Packet.__delattr__
DelAttr(self, name) ==
    /\ self \in done \/ \E i \in 1..Len(stack) : stack[i] = self
    /\ last' = Last("delattr", self, name, "AttributeError", "", Empty, Empty, NoX)
    /\ UNCHANGED <<packet_serializer, attrs, cls_setattr, stack, done, expr>>

Dumps(self) ==
    /\ self \in done
    /\ LET r == dumps(__tag__(self), attrs[self], packet_serializer) IN
       last' = Last("dumps", self, "", r.err, "", Empty, r.val, NoX)
    /\ UNCHANGED <<packet_serializer, attrs, cls_setattr, stack, done, expr>>

Loads(self, data) ==
    /\ self \in done
    /\ LET r == loads(__tag__(self), attrs[self], data, packet_serializer) IN
       /\ attrs' = [attrs EXCEPT ![self] = r.am]
       /\ last' = Last("loads", self, "", r.err, "", data, Empty, NoX)
    /\ UNCHANGED <<packet_serializer, cls_setattr, stack, done, expr>>

ReceiveFrom(self, conn, data) ==
    /\ self \in done
    /\ LET r == receive_from(__tag__(self), attrs[self], conn, data, packet_serializer) IN
       /\ attrs' = [attrs EXCEPT ![self] = r.am]
       /\ last' = Last("receive_from", self, conn, r.err, r.ret, data, Empty, NoX)
    /\ UNCHANGED <<packet_serializer, cls_setattr, stack, done, expr>>

SendTo(self, conn) ==
    /\ self \in done
    /\ LET r == send_to(__tag__(self), attrs[self], conn, packet_serializer) IN
       last' = Last("send_to", self, conn, r.err, r.ret, Empty, r.val, NoX)
    /\ UNCHANGED <<packet_serializer, attrs, cls_setattr, stack, done, expr>>

set_json_serializer ==
    /\ packet_serializer' = JSON_SERIALIZER
    /\ last' = Last("set_json_serializer", "", "", "", "", Empty, Empty, NoX)
    /\ UNCHANGED <<attrs, cls_setattr, stack, done, expr>>

set_ast_serializer ==
    /\ packet_serializer' = AST_SERIALIZER
    /\ last' = Last("set_ast_serializer", "", "", "", "", Empty, Empty, NoX)
    /\ UNCHANGED <<attrs, cls_setattr, stack, done, expr>>

set_packet_serializer(x) ==
    /\ IF UnknownSerializer(x)
       THEN /\ packet_serializer' = packet_serializer
            /\ last' = Last("set_packet_serializer", "", "", "ValueError", "", Empty, Empty, x)
       ELSE /\ packet_serializer' = x.v
            /\ last' = Last("set_packet_serializer", "", "", "", "", Empty, Empty, x)
    /\ UNCHANGED <<attrs, cls_setattr, stack, done, expr>>

Next ==
    \/ \E self \in Instances : Dumps(self)
    \/ \E self \in Receivers, data \in Payloads : Loads(self, data)
    \/ set_json_serializer
    \/ set_ast_serializer
    \/ \E x \in Selectors : set_packet_serializer(x)

Spec == Init /\ [][Next]_vars

(***************************************************************************)
(* The transport helpers, on the same instances.                           *)
(***************************************************************************)
\* what receive_from meets: no connection, or a connection and what recv gives
RecvInputs ==
    {<<"None", Empty>>} \cup {<<"conn", d>> : d \in Payloads \cup {Empty}}

NextTransport ==
    \/ \E self \in Receivers, i \in RecvInputs : ReceiveFrom(self, i[1], i[2])
    \/ \E self \in Instances, conn \in {"None", "conn"} : SendTo(self, conn)
    \/ set_json_serializer
    \/ set_ast_serializer

SpecTransport == Init /\ [][NextTransport]_vars

(***************************************************************************)
(* Construction: _PacketMetaClass wraps each class's __init__ with         *)
(* _override_init's _wrapper, which swaps the class's __setattr__.         *)
(***************************************************************************)
SchemaInstances == {"p1", "p2", "p4"}
NoAttrs == [nm \in {} |-> NoneV]

\* the texts the constructed instances are asked to decode
SchemaPayloads ==
    {Text("json", JObj(<<JItem("T", JAttrs(<<"a">>))>>)),
     Text("json", JObj(<<JItem("T", JAttrs(<<"a", "b">>))>>)),
     Text("json", JObj(<<JItem("T", JAttrs(<<"a", "c">>))>>))}

InitSchema ==
    /\ packet_serializer = JSON_SERIALIZER
    /\ attrs = [p \in Instances |-> NoAttrs]
    /\ cls_setattr = [c \in Classes |-> "object"]
    /\ stack = <<>>
    /\ done = {}
    /\ expr = NoneV
    /\ last = Last("init", "", "", "", "", Empty, Empty, NoX)

InStack(p) == \E i \in 1..Len(stack) : stack[i] = p

\* _wrapper is entered for a new instance: line 185
BeginInit(self) ==
    /\ self \notin done /\ ~InStack(self)
    /\ cls_setattr' = [cls_setattr EXCEPT ![ClassOf[self]] = "object"]
    /\ stack' = Append(stack, self)
    /\ attrs' = [attrs EXCEPT ![self] = NoAttrs]
    /\ last' = Last("begin_init", self, "", "", "", Empty, Empty, NoX)
    /\ UNCHANGED <<packet_serializer, done, expr>>

\* the innermost __init__ returns: line 189
EndInit ==
    /\ stack # <<>>
    /\ LET self == stack[Len(stack)] IN
       /\ cls_setattr' = [cls_setattr EXCEPT ![ClassOf[self]] = "_setattr"]
       /\ done' = done \cup {self}
       /\ last' = Last("end_init", self, "", "", "", Empty, Empty, NoX)
    /\ stack' = SubSeq(stack, 1, Len(stack) - 1)
    /\ UNCHANGED <<packet_serializer, attrs, expr>>

\* the innermost __init__ raises: _wrapper is left at line 187 and the
\* instance is never bound
RaiseInit ==
    /\ stack # <<>>
    /\ LET self == stack[Len(stack)] IN
       /\ attrs' = [attrs EXCEPT ![self] = NoAttrs]
       /\ last' = Last("raise_init", self, "", "Exception", "", Empty, Empty, NoX)
    /\ stack' = SubSeq(stack, 1, Len(stack) - 1)
    /\ UNCHANGED <<packet_serializer, cls_setattr, done, expr>>

NextSchema ==
    \/ \E self \in SchemaInstances : BeginInit(self)
    \/ EndInit
    \/ RaiseInit
    \/ \E self \in SchemaInstances, name \in {"a", "c"} : SetAttr(self, name, IntV(1))
    \/ \E self \in SchemaInstances, name \in {"a", "c"} : DelAttr(self, name)
    \/ \E self \in SchemaInstances, data \in SchemaPayloads : Loads(self, data)

SpecSchema == InitSchema /\ [][NextSchema]_vars

(***************************************************************************)
(* safe_eval on expression trees.                                          *)
(***************************************************************************)
One == Constant(IntV(1))

Leaves ==
    {One, Constant(StrV("x")), Name("None"), Name("inf"), Name("foo"),
     Call(Attribute(Name("os"), "getcwd"), <<>>, <<>>)}

\* the trees with t as a child
Wrap(t) ==
    {Tuple(<<t>>), List(<<One, t>>), Set(<<t>>),
     Dict(<<Item(Constant(StrV("k")), t)>>), Dict(<<Item(t, One)>>),
     Call(Name("set"), <<t>>, <<>>), Call(Name("set"), <<>>, <<t>>),
     Call(Name("open"), <<t>>, <<>>),
     UnaryOp("USub", t), UnaryOp("Not", t),
     BinOp(t, "Add", One), BinOp(One, "Mult", t),
     Attribute(t, "real"), Subscript(t, One), Compare(t, One),
     BoolOp("And", <<t, One>>)}

RECURSIVE TreesOf(_)
TreesOf(d) ==
    IF d = 0 THEN Leaves
    ELSE LET sub == TreesOf(d - 1) IN sub \cup UNION {Wrap(t) : t \in sub}

Trees == TreesOf(MaxDepth)

InitEval ==
    /\ packet_serializer = JSON_SERIALIZER
    /\ attrs = [p \in Instances |-> NoAttrs]
    /\ cls_setattr = [c \in Classes |-> "object"]
    /\ stack = <<>>
    /\ done = {}
    /\ expr \in Trees
    /\ last = Last("init", "", "", "", "", Empty, Empty, NoX)

\* safe_eval(expr): the exception raised and the value returned
Evaluate ==
    /\ last.op = "init"
    /\ LET r == _convert(expr) IN
       last' = Last("safe_eval", "", "", r.err, "", Empty, Text("value", r.val), NoX)
    /\ UNCHANGED <<packet_serializer, attrs, cls_setattr, stack, done, expr>>

NextEval == Evaluate

SpecEval == InitEval /\ [][NextEval]_vars

(***************************************************************************)
(* Properties.                                                             *)
(***************************************************************************)
\* what loads parses last.data to, under the selector now active
Parsed(data) ==
    IF packet_serializer = AST_SERIALIZER THEN safe_eval(data) ELSE json_loads(data)

AttrKeys(p) == {StrV(nm) : nm \in DOMAIN attrs[p]}
TagKey(p) == StrV(__tag__(p))
DumpNow(p) == dumps(__tag__(p), attrs[p], packet_serializer)

SupersetPayload == Text("json", JObj(<<JItem("T", JAttrs(<<"a", "b", "c">>))>>))

\* C1: round trip.  When R' decodes what R.dumps() returned, R and R' having
\* the same tag and the same attribute names and the selector being the same
\* for both calls, loads succeeds and leaves every attribute of R' equal to
\* R's.
C1_RoundTrip ==
    \A R \in Instances :
        (/\ last.op = "loads"
         /\ R # last.self
         /\ ClassOf[R] = ClassOf[last.self]
         /\ DOMAIN attrs[R] = DOMAIN attrs[last.self]
         /\ DumpNow(R).err = ""
         /\ DumpNow(R).val = last.data)
        => (last.exc = "" /\ attrs[last.self] = attrs[R])

\* C2: schema rejection.  A payload that parses to a mapping is refused with
\* InvalidData when the record's tag is not a top-level key of it, or when
\* the value under the tag does not have exactly the record's attribute names
\* as its keys; so is what dumps returned for a record of another tag or of
\* another attribute set.
C2_SchemaRejection ==
    last.op = "loads" =>
        LET self == last.self
            parsed == Parsed(last.data)
        IN  /\ (parsed.err = "" /\ parsed.val.k = "dict") =>
                  ((\/ TagKey(self) \notin DictKeys(parsed.val)
                    \/ DictGet(parsed.val, TagKey(self)).k # "dict"
                    \/ DictKeys(DictGet(parsed.val, TagKey(self))) # AttrKeys(self))
                   => last.exc = "InvalidData")
            /\ \A R \in Instances :
                  (/\ R # self
                   /\ DumpNow(R).err = ""
                   /\ DumpNow(R).val = last.data
                   /\ (ClassOf[R] # ClassOf[self] \/ DOMAIN attrs[R] # DOMAIN attrs[self]))
                  => last.exc = "InvalidData"

\* a record of tag U was handed the dumps output of a record of tag T
C2_Witness ==
    /\ last.op = "loads"
    /\ last.self = "p3"
    /\ last.exc = "InvalidData"
    /\ DumpNow("p1").err = ""
    /\ last.data = DumpNow("p1").val

\* C3: decode is all-or-nothing.  A loads call that raises (UnknownPacket or
\* InvalidData, nothing else) leaves every attribute as it was; one that
\* returns has set every attribute of the record to the decoded value and has
\* touched no other record.
C3_AllOrNothing ==
    [][last'.op = "loads" =>
         LET self == last'.self
             parsed == Parsed(last'.data)
         IN  /\ last'.exc \in {"", "UnknownPacket", "InvalidData"}
             /\ last'.exc # "" => attrs' = attrs
             /\ last'.exc = "" =>
                   /\ DOMAIN attrs'[self] = DOMAIN attrs[self]
                   /\ \A nm \in DOMAIN attrs[self] :
                         attrs'[self][nm] =
                            DictGet(DictGet(parsed.val, TagKey(self)), StrV(nm))
                   /\ \A q \in Instances \ {self} : attrs'[q] = attrs[q]]_vars

\* a payload naming the record's attributes and one more was refused, and the
\* record still holds what it held
C3_Witness ==
    /\ last.op = "loads"
    /\ last.self = "p2"
    /\ last.data = SupersetPayload
    /\ last.exc = "InvalidData"
    /\ attrs["p2"] = [nm \in {"a", "b"} |-> NoneV]

\* C4: single-root envelope.  loads raises UnknownPacket whenever the payload
\* does not parse to a mapping with exactly one top-level key.
C4_SingleRoot ==
    last.op = "loads" =>
        LET parsed == Parsed(last.data) IN
        (\/ parsed.err # ""
         \/ parsed.val.k # "dict"
         \/ Cardinality(DictKeys(parsed.val)) # 1)
        => last.exc = "UnknownPacket"

RECURSIVE NonStringKey(_)
\* some mapping in val, at any depth, has a key that is no string
NonStringKey(val) ==
    \/ val.k = "dict" /\ \E i \in 1..Len(val.e) : val.e[i].e[1].k # "str"
    \/ \E i \in 1..Len(val.e) : NonStringKey(val.e[i])

\* C5: under the JSON encoding dumps raises NotSerializable whenever a mapping
\* reachable from the record's attribute values has a non-string key.
C5_StringKeys ==
    (/\ last.op = "dumps"
     /\ packet_serializer # AST_SERIALIZER
     /\ \E nm \in DOMAIN attrs[last.self] : NonStringKey(attrs[last.self][nm]))
    => last.exc = "NotSerializable"

\* C6: under the literal encoding dumps raises NotSerializable whenever
\* re-parsing the repr text raises anything, lets no other error out, and
\* returns only when the re-parse succeeded.
C6_ReparseCheck ==
    (last.op = "dumps" /\ packet_serializer = AST_SERIALIZER) =>
        LET self == last.self
            text == repr(DictV(<<Item(TagKey(self), _generate_dict(attrs[self]))>>))
            re == safe_eval(text)
        IN  /\ re.err # "" => last.exc = "NotSerializable"
            /\ last.exc \in {"", "NotSerializable"}
            /\ last.exc = "" => (re.err = "" /\ last.out = text)

RECURSIVE InGrammar(_), Forbidden(_)
\* every node of the tree is of the grammar
InGrammar(node) ==
    /\ CASE node.k = "Constant" -> TRUE
         [] node.k \in {"Tuple", "List", "Set", "Dict", "item", "args", "keywords"} -> TRUE
         [] node.k = "Name" -> node.v \in DOMAIN _SAFE_NAMES
         [] node.k = "UnaryOp" -> node.v \in {"UAdd", "USub"}
         [] node.k = "BinOp" -> node.v \in {"Add", "Sub"}
         [] node.k = "Call" -> node.e[1].k = "Name" /\ node.e[1].v \in _SAFE_CALLS
         [] OTHER -> FALSE
    /\ IF node.k = "Constant" THEN TRUE
       ELSE IF node.k = "Call"
       THEN InGrammar(node.e[2]) /\ InGrammar(node.e[3])
       ELSE \A i \in 1..Len(node.e) : InGrammar(node.e[i])

\* some node of the tree is a call to a callable off the whitelist, a
\* comparison, an attribute access, a subscript or a name that is not safe
Forbidden(node) ==
    \/ node.k \in {"Compare", "Attribute", "Subscript"}
    \/ node.k = "Name" /\ node.v \notin DOMAIN _SAFE_NAMES
    \/ node.k = "Call" /\ ~(node.e[1].k = "Name" /\ node.e[1].v \in _SAFE_CALLS)
    \/ IF node.k = "Constant" THEN FALSE
       ELSE IF node.k = "Call" /\ node.e[1].k = "Name"
       THEN Forbidden(node.e[2]) \/ Forbidden(node.e[3])
       ELSE \E i \in 1..Len(node.e) : Forbidden(node.e[i])

\* C7: grammar containment.  safe_eval returns a value only for a tree whose
\* every node is of the grammar, and raises ValueError for a tree holding a
\* forbidden node anywhere.
C7_GrammarContainment ==
    last.op = "safe_eval" =>
        /\ last.exc = "" => InGrammar(expr)
        /\ Forbidden(expr) => last.exc = "ValueError"

\* C8: fixed schema.  Once an instance's constructor has returned, no step
\* changes its attribute-name set, and a write to a name outside it raises
\* AttributeError, whatever other instances of the class are being built.
C8_FixedSchema ==
    [][/\ \A p \in done : DOMAIN attrs'[p] = DOMAIN attrs[p]
       /\ (/\ last'.op = "setattr"
           /\ last'.self \in done
           /\ last'.name \notin DOMAIN attrs[last'.self])
          => last'.exc = "AttributeError"]_vars

\* C9: receive_from returns False, raising nothing and changing nothing, when
\* there is no connection, when recv gives nothing, or when loads raises
\* UnknownPacket or InvalidData; it returns True exactly when loads succeeded
\* on what recv gave; an exception leaves it only if loads raised another one.
C9_ReceiveFrom ==
    [][last'.op = "receive_from" =>
         LET self == last'.self
             conn == last'.name
             r == loads(__tag__(self), attrs[self], last'.data, packet_serializer)
             nodata == (conn = "None" \/ last'.data = Empty)
         IN  /\ (nodata \/ r.err \in {"UnknownPacket", "InvalidData"}) =>
                   (last'.exc = "" /\ last'.ret = "False" /\ attrs' = attrs)
             /\ last'.ret = "True" <=> (~nodata /\ r.err = "")
             /\ last'.ret = "True" => attrs' = [attrs EXCEPT ![self] = r.am]
             /\ last'.exc # "" =>
                   (~nodata /\ last'.exc = r.err
                    /\ r.err \notin {"UnknownPacket", "InvalidData"})]_vars

\* recv gave a payload that loads refused, and receive_from returned False
C9_Witness ==
    /\ last.op = "receive_from"
    /\ last.name = "conn"
    /\ last.data \in Payloads
    /\ last.exc = ""
    /\ last.ret = "False"

\* C10: the active encoding is always JSON_SERIALIZER or AST_SERIALIZER;
\* set_packet_serializer(x) raises and changes nothing when x is not one of
\* the two, and makes x the active encoding otherwise; dumps writes in the
\* active encoding.
C10_SerializerSelector ==
    /\ [](packet_serializer \in Serializers)
    /\ []((last.op = "dumps" /\ last.exc = "") =>
             last.out.fmt = (IF packet_serializer = AST_SERIALIZER THEN "py" ELSE "json"))
    /\ [][last'.op = "set_packet_serializer" =>
            IF last'.x.t \in {"int", "bool"} /\ last'.x.v \in Serializers
            THEN last'.exc = "" /\ packet_serializer' = last'.x.v
            ELSE last'.exc = "ValueError" /\ packet_serializer' = packet_serializer]_vars

\* an unknown selector was refused while the literal encoding was active
C10_Witness ==
    /\ last.op = "set_packet_serializer"
    /\ last.exc = "ValueError"
    /\ last.x = [t |-> "int", v |-> MaxInt]
    /\ packet_serializer = AST_SERIALIZER

====
